---- MODULE Spec2Model ----
(***************************************************************************)
(* RecordingBot: the task queue / concurrency controller                   *)
(* (bot/task_manager.py) driving the capture engine                        *)
(* (bot/utils/chunk_pipeline.py, the module main.py imports, and its       *)
(* revision kept under bot/untils/chunk_pipeline.py).                      *)
(*                                                                         *)
(* Everything runs on one asyncio event loop, so a coroutine runs          *)
(* atomically from one suspension point (an await that really suspends)    *)
(* to the next.  One action of the model is one such atomic stretch.       *)
(* asyncio.Queue and asyncio.Semaphore behave as in CPython 3.11:          *)
(* Queue.get and Semaphore.acquire do not suspend when an item / a permit  *)
(* is available, and Semaphore.release hands the permit to the first       *)
(* waiter.  Worker loops carry no state besides the task they hold, so     *)
(* they are counted, not named.                                            *)
(***************************************************************************)
EXTENDS Integers, Sequences, FiniteSets, TLC

\* ---- bounds of the model ----
NTasks == 2          \* tasks the environment enqueues
MaxWorkers == 2      \* largest worker count passed to start()
MaxCap == 1          \* largest max_concurrent passed to TaskManager()
MaxDur == 1          \* largest duration_sec, in units of one part budget
MaxSpawn == 2        \* encoder attempts of one engine run
NUsers == 2          \* distinct owners

\* part_sec of a task, in model units (one unit = one part budget)
PartSec == 1

\* bounds of the runs of a single task (specification EngSpec)
EngMaxDur == 5       \* largest duration_sec
EngMaxBw == 1        \* largest bitrate_bps known at task start
EngMaxSpawn == 6     \* encoder attempts

\* bounds of the runs of a task recorded from a master manifest
\* (specification HlsSpec)
HlsDur == 4          \* duration_sec
HlsMaxSpawn == 2     \* encoder attempts
MaxVariants == 2     \* #EXT-X-STREAM-INF entries of a manifest
MaxAudios == 2       \* #EXT-X-MEDIA TYPE=AUDIO entries of a manifest

\* part_sec from the bitrate, in model units: PART_MAX_BYTES * 8 * 0.92
\* bits per part, clamped to 1 min .. 2 h (PartSec is the default used
\* when the bitrate is unknown)
PartBits == 2
MinPartSec == 1
MaxPartSec == 2

Tasks == 1..NTasks
Users == 1..NUsers
Procs == 1..(IF EngMaxSpawn > MaxSpawn THEN EngMaxSpawn ELSE MaxSpawn)

None == ""
Terminal == {"done", "failed", "cancelled"}

\* str(e) of the exceptions that leave run_recording_task
ExcChannel == "Channel not found in playlist"
ExcSpawn == "ffmpeg spawn failed"
ExcUpload == "Telegram sendVideo failed"
ExcTexts == {ExcChannel, ExcSpawn, ExcUpload}

VARIABLES
    engine,          \* installed chunk_pipeline revision: "utils" | "untils"
    max_concurrent,  \* TaskManager.max_concurrent
    closed,          \* TaskManager._closed
    nworkers,        \* len(TaskManager._workers)
    idle,            \* worker loops suspended in self._queue.get()
    queue,           \* TaskManager._queue
    queued,          \* keys of TaskManager._queued
    active,          \* keys of TaskManager._active
    semValue,        \* TaskManager._sem._value
    semWaiters,      \* TaskManager._sem._waiters: the task each waiting loop holds
    granted,         \* leading waiters whose future is done (permit handed over)
    cancelling,      \* tasks whose worker was cancelled by close() and has not unwound
    state,           \* RecordingTask.state ("new": not created yet)
    error,           \* RecordingTask.error
    owner,           \* RecordingTask.user_id
    epc,             \* position of run_recording_task for each task
    total,           \* total / total_target, read from task.duration_sec
    elapsed,         \* elapsed_total
    attempt,         \* encoder processes created by the running engine
    termWhy,         \* why _terminate_proc is awaited: "stop" | "stall"
    part_sec,        \* part_sec
    part_index,      \* part_index (0: not set yet)
    limits,          \* history of the run: this_part_t of every encoder started
    sent,            \* history of the run: part_index of every part transferred
    exact,           \* history of the run: every attempt so far was usable, ran
                     \* for its whole time limit and was transferred at once
    xok,             \* ok (the part was transferred)
    trackers,        \* done flag of the tracker of every send call of the part
    remuxes,         \* calls of _remux_to_mp4 for the part
    vod_offset,      \* vod_offset (resume offset of the next part)
    fail_streak,     \* fail_streak: consecutive attempts discarded as tiny
                     \* (utils keeps no such counter; there it is history)
    backoff,         \* delay of the retry sleep in progress, times DelayScale
    usage,           \* history of the run: calls of add_usage
    stall,           \* seconds from stall_since to the last poll (-1: None);
                     \* utils has no watchdog, there it is history
    files,           \* files of the task on disk: "out" (out_path), "mp4" (mp4_path)
    dirs,            \* tasks whose out_dir / tmp_dir exist
    stopReg,         \* keys of chunk_pipeline._stop
    stopSet,         \* tasks whose stop event is set
    procReg,         \* chunk_pipeline._proc (0: no entry)
    palive,          \* encoder processes of each task that have not exited
    psig,            \* live encoder processes that were sent SIGINT/SIGTERM
    inputs,          \* RecordingInputs of each task (the fields the refresh uses)
    fetched,         \* master manifest read by the refresh before the encoder
                     \* being created (cleared once the encoder is registered)
    drain,           \* process whose stderr pipe a _drain_stderr task reads (0: none)
    runs,            \* history: invocations of the runner per task
    ended,           \* history: how the runner ended
    cancelledQueued, \* history: tasks cancel_task/cancel_user took out of _queued
    cancelledActive, \* history: tasks cancel_task/cancel_user found in _active
    ret,             \* outcome of the last call of the public API: <<kind, value>>
    sessions,        \* ffmpeg_runner._sessions: users with an entry
    stop_requested,  \* session.stop_requested of the user's session
    proc,            \* session.proc: "none" | "running" | "exited"
    recpc,           \* position of the user's _record_worker: "none" | "start" | "loop"
    accepted,        \* history: sessions start_recording accepted per user
    done_calls,      \* history: done_callback invocations of accepted sessions
    error_calls,     \* history: error_callback invocations of accepted sessions
    rec_ret,         \* outcome of the last start_recording: "" | "accepted" | "rejected"
    used_seconds,    \* db usage document of the day per user (model units)
    recordings,      \* per user: seconds still to record of each admitted recording
    tracker,         \* a ProgressTracker: [total, sent, done]
    updated,         \* history: update was called on the tracker
    foreign,         \* history: an update not issued by the uploader was applied
    snap,            \* the last two snapshots taken of the tracker
    seen_done,       \* history: some snapshot of the tracker showed done
    wpc,             \* position of the upload: "none" | "chunks" | "finally"
    wsent,           \* local "sent" of _ProgressPayload.write
    wleft            \* chunks of the file not yet read

cfgVars == <<engine, max_concurrent>>
ctlVars == <<closed, nworkers, idle, queue, queued, active, semValue,
             semWaiters, granted, cancelling, state, error, owner>>
moreLocals == <<vod_offset, fail_streak, backoff, usage, stall>>
runLocals == <<total, elapsed, attempt, termWhy, part_sec, part_index, limits,
               sent, exact, xok, trackers, remuxes, moreLocals>>
locVars == <<epc, runLocals>>
diskVars == <<files, dirs>>
regVars == <<stopReg, stopSet, procReg>>
procVars == <<palive, psig, drain>>
histVars == <<runs, ended, cancelledQueued, cancelledActive>>
hlsVars == <<inputs, fetched>>
coreVars == <<cfgVars, ctlVars, locVars, diskVars, regVars, procVars, histVars,
              hlsVars, ret>>
recVars == <<sessions, stop_requested, proc, recpc, accepted, done_calls,
             error_calls, rec_ret>>
quotaVars == <<used_seconds, recordings>>
trkVars == <<tracker, updated, foreign, snap, seen_done, wpc, wsent, wleft>>
sideVars == <<recVars, quotaVars, trkVars>>
vars == <<coreVars, sideVars>>

\* What a call of the public API gives back to its caller.
RetNone == <<"none", 0>>                         \* returned None
RetRaised == <<"raised", 0>>                     \* raised RuntimeError
RetBool(b) == <<"bool", IF b THEN 1 ELSE 0>>     \* returned True / False
RetInt(n) == <<"int", n>>                        \* returned a count

Max(a, b) == IF a > b THEN a ELSE b
Min(a, b) == IF a < b THEN a ELSE b

\* ---------------------------------------------------------------------
\* HLS master manifests (hls.parse_master) and RecordingInputs
\* ---------------------------------------------------------------------

\* urljoin(base_url, uri) of the URIs used here: "./a" and "a" name the
\* same resource.
Resolve(uri) ==
    CASE uri = "./a" -> "a"
      [] uri = "./x" -> "x"
      [] OTHER -> uri

\* str.lower() on the labels used here
Lower(l) ==
    CASE l = "HD" -> "hd"
      [] l = "SD" -> "sd"
      [] OTHER -> l

\* The #EXT-X-STREAM-INF entries a manifest may hold: label (from
\* RESOLUTION / BANDWIDTH), BANDWIDTH (0: attribute absent) and URI line.
VariantLines ==
    { [label |-> "hd", bw |-> 2, uri |-> "a"],
      [label |-> "sd", bw |-> 1, uri |-> "b"],
      [label |-> "sd", bw |-> 3, uri |-> "./a"],
      [label |-> "hd", bw |-> 0, uri |-> "b"] }

\* The #EXT-X-MEDIA TYPE=AUDIO entries a manifest may hold: id
\* (GROUP-ID:NAME) and URI attribute.
AudioLines ==
    { [id |-> "en", uri |-> "x"],
      [id |-> "fr", uri |-> "y"],
      [id |-> "en", uri |-> "./x"] }

SeqsUpTo(S, n) == UNION {[1..k -> S] : k \in 0..n}

\* Text of a master manifest: its variant entries and its audio entries,
\* each in file order.
Manifests == [vs : SeqsUpTo(VariantLines, MaxVariants),
              as : SeqsUpTo(AudioLines, MaxAudios)]

\* A fetch that failed, or text that is no master playlist: nothing parsed.
NoManifest == [vs |-> <<>>, as |-> <<>>]

\* "Deduplicate by url": the first entry of every url, in order.
FirstSeen(s) ==
    LET keep == {i \in 1..Len(s) : \A j \in 1..(i - 1) : s[j].url # s[i].url}
        F[k \in 0..Len(s)] ==
            IF k = 0 THEN <<>>
            ELSE IF k \in keep THEN Append(F[k - 1], s[k]) ELSE F[k - 1]
    IN F[Len(s)]

\* parse_master(text, base_url) = (variants2, audios). The audio list is
\* returned as collected; only the variants go through the de-duplication.
\* (utils/hls.py is imported by the deployed engine and by main.py; the
\* parser in the tree is untils/hls.py.)
ParseMaster(m) ==
    LET variants == [i \in 1..Len(m.vs) |->
                       [id |-> i, label |-> m.vs[i].label,
                        bandwidth |-> m.vs[i].bw, url |-> Resolve(m.vs[i].uri)]]
        audios == [i \in 1..Len(m.as) |->
                     [id |-> m.as[i].id, url |-> Resolve(m.as[i].uri)]]
    IN <<FirstSeen(variants), audios>>

Urls(s) == [i \in 1..Len(s) |-> s[i].url]

\* (v.get("label") or "").lower() == inputs.variant_label.lower()
LabelEqExact(a, b) == a = b
LabelEq(a, b) == Lower(a) = Lower(b)

\* sorted(variants, key=_bw, reverse=True)[0]: the sort is stable, so the
\* first of the entries of the largest bandwidth.
HighestBandwidth(vs) ==
    CHOOSE i \in 1..Len(vs) :
        /\ \A j \in 1..Len(vs) : vs[j].bandwidth <= vs[i].bandwidth
        /\ \A j \in 1..(i - 1) : vs[j].bandwidth < vs[i].bandwidth

\* chosen: the first variant of the matching label when variant_label is
\* set, else the highest bandwidth.
ChosenVariant(vs, label) ==
    LET hits == {i \in 1..Len(vs) : label # "" /\ LabelEq(vs[i].label, label)}
    IN IF hits # {} THEN vs[CHOOSE i \in hits : \A j \in hits : i <= j]
       ELSE vs[HighestBandwidth(vs)]

\* match or inputs.audio_urls
MatchOnly(match, prev) == match
MatchOrKeep(match, prev) == IF Len(match) > 0 THEN match ELSE prev

\* audio_urls after the refresh: every track for "ALL", the tracks of the
\* chosen id or the previous list, untouched when no choice was made.
AudioAfter(audios, choice, prev) ==
    IF Len(audios) = 0 THEN prev
    ELSE IF choice = "ALL" THEN Urls(audios)
    ELSE IF choice # ""
         THEN MatchOrKeep(Urls(SelectSeq(audios, LAMBDA a : a.id = choice)), prev)
    ELSE prev

\* The "if inputs.master_url:" block run before every part: video_url,
\* bitrate_bps and audio_urls from the manifest just fetched. A failed
\* fetch is swallowed and leaves inputs as they were.
MasterRefresh(inp, m) ==
    LET P == ParseMaster(m)
        variants == P[1]
        audios == P[2]
        chosen == ChosenVariant(variants, inp.variant_label)
        v == IF Len(variants) = 0 THEN inp
             ELSE [inp EXCEPT !.video_url = chosen.url,
                              !.bitrate_bps = IF chosen.bandwidth # 0
                                              THEN chosen.bandwidth ELSE @]
    IN [v EXCEPT !.audio_urls = AudioAfter(audios, inp.audio_choice, @)]

\* /record of a direct URL: no master_url, bitrate unknown.
DirectInputs ==
    [master |-> FALSE, variant_label |-> "", audio_choice |-> "",
     video_url |-> "a", audio_urls |-> <<>>, bitrate_bps |-> 0]

\* Inputs built from a master manifest by the schedule path or by the
\* variant / audio callbacks: the label of the chosen variant, its
\* bandwidth if known, audio_choice None exactly when no audio was picked.
MasterInputs ==
    { i \in [master : {TRUE}, variant_label : {"HD", "4k"},
             audio_choice : {"", "ALL", "en", "de"}, video_url : {"a"},
             audio_urls : {<<>>, <<"x">>}, bitrate_bps : {0, 1}] :
        (i.audio_choice = "") <=> (i.audio_urls = <<>>) }

\* part_sec = max(60, min(int(PART_MAX_BYTES * 8 * 0.92 / bitrate), 7200)),
\* 15 min when the bitrate is unknown
PartSecOf(b) ==
    IF b > 0 THEN Max(MinPartSec, Min(PartBits \div b, MaxPartSec)) ELSE PartSec

\* ---------------------------------------------------------------------
\* Construction
\* ---------------------------------------------------------------------

\* TaskManager.__init__: max_concurrent = max(1, int(max_concurrent))
ClampCap(n) == IF n < 1 THEN 1 ELSE n

\* ffmpeg_runner: the module-level registry starts empty, no session exists.
RecInit ==
    /\ sessions = {}
    /\ stop_requested = [u \in Users |-> FALSE]
    /\ proc = [u \in Users |-> "none"]
    /\ recpc = [u \in Users |-> "none"]
    /\ accepted = [u \in Users |-> 0]
    /\ done_calls = [u \in Users |-> 0]
    /\ error_calls = [u \in Users |-> 0]
    /\ rec_ret = ""

\* No usage document yet (get_usage creates it with used_seconds = 0), no
\* recording admitted.
QuotaInit ==
    /\ used_seconds = [u \in Users |-> 0]
    /\ recordings = [u \in Users |-> <<>>]

\* ProgressTracker(total=n): sent = 0, done = False.
NewTracker(n) == [total |-> n, sent |-> 0, done |-> FALSE]

\* A tracker built for a missing file (total = 1), no upload under way.
TrkInit ==
    /\ tracker = NewTracker(1)
    /\ updated = FALSE
    /\ foreign = FALSE
    /\ snap = <<>>
    /\ seen_done = FALSE
    /\ wpc = "none"
    /\ wsent = 0
    /\ wleft = 0

\* ins: the inputs task 1 may be submitted with (the other tasks are
\* direct recordings).
InitWith(engines, caps, ins) ==
    /\ RecInit /\ QuotaInit /\ TrkInit
    /\ engine \in engines
    /\ inputs \in {[t \in Tasks |-> IF t = 1 THEN i ELSE DirectInputs] : i \in ins}
    /\ fetched = [t \in Tasks |-> NoManifest]
    /\ max_concurrent \in {ClampCap(n) : n \in caps}
    /\ closed = FALSE
    /\ nworkers = 0
    /\ idle = 0
    /\ queue = <<>>
    /\ queued = {}
    /\ active = {}
    /\ semValue = max_concurrent
    /\ semWaiters = <<>>
    /\ granted = 0
    /\ cancelling = {}
    /\ state = [t \in Tasks |-> "new"]
    /\ error = [t \in Tasks |-> None]
    /\ owner = [t \in Tasks |-> 0]
    /\ epc = [t \in Tasks |-> "none"]
    /\ total = [t \in Tasks |-> 0]
    /\ elapsed = [t \in Tasks |-> 0]
    /\ attempt = [t \in Tasks |-> 0]
    /\ termWhy = [t \in Tasks |-> None]
    /\ part_sec = [t \in Tasks |-> 0]
    /\ part_index = [t \in Tasks |-> 0]
    /\ limits = [t \in Tasks |-> <<>>]
    /\ sent = [t \in Tasks |-> <<>>]
    /\ exact = [t \in Tasks |-> TRUE]
    /\ xok = [t \in Tasks |-> FALSE]
    /\ trackers = [t \in Tasks |-> <<>>]
    /\ remuxes = [t \in Tasks |-> 0]
    /\ vod_offset = [t \in Tasks |-> 0]
    /\ fail_streak = [t \in Tasks |-> 0]
    /\ backoff = [t \in Tasks |-> 0]
    /\ usage = [t \in Tasks |-> 0]
    /\ stall = [t \in Tasks |-> -1]
    /\ drain = [t \in Tasks |-> 0]
    /\ files = [t \in Tasks |-> {}]
    /\ dirs = {}
    /\ stopReg = {}
    /\ stopSet = {}
    /\ procReg = [t \in Tasks |-> 0]
    /\ palive = [t \in Tasks |-> {}]
    /\ psig = [t \in Tasks |-> {}]
    /\ runs = [t \in Tasks |-> 0]
    /\ ended = [t \in Tasks |-> "no"]
    /\ cancelledQueued = {}
    /\ cancelledActive = {}
    /\ ret = RetNone

Init == InitWith({"utils", "untils"}, 0..MaxCap, {DirectInputs})

\* ---------------------------------------------------------------------
\* chunk_pipeline.request_stop
\* ---------------------------------------------------------------------

\* The process request_stop signals: _proc.get(task_id) with returncode None.
StopTarget(t) == IF procReg[t] \in palive[t] THEN {procReg[t]} ELSE {}

\* ev = _stop.get(task_id); if ev: ev.set()
StopSetAfter(ss, ts) == ss \cup (ts \cap stopReg)

\* p = _proc.get(task_id); if p and p.returncode is None: signal it
PsigAfter(ts) ==
    [t \in Tasks |-> IF t \in ts THEN psig[t] \cup StopTarget(t) ELSE psig[t]]

\* Direct call of request_stop (exposed for administrative stops).
RequestStop(t) ==
    /\ state[t] # "new"
    /\ stopSet' = StopSetAfter(stopSet, {t})
    /\ psig' = PsigAfter({t})
    /\ ret' = RetNone
    /\ UNCHANGED <<sideVars, hlsVars, cfgVars, ctlVars, locVars, diskVars, stopReg, procReg, palive,
                   drain, histVars>>

\* ---------------------------------------------------------------------
\* TaskManager: start, enqueue, cancel_task, cancel_user, close
\* ---------------------------------------------------------------------

\* w = max(1, int(workers))
ClampWorkers(n) == IF n < 1 THEN 1 ELSE n

\* Mutant: start() without the "if self._workers: return" guard.
WorkersAfterStartStacking(cur, n) == cur + ClampWorkers(n)

\* "if self._workers: return", else w loops are created
WorkersAfterStart(cur, n) == IF cur # 0 THEN cur ELSE ClampWorkers(n)

Start(n) ==
    /\ nworkers' = WorkersAfterStart(nworkers, n)
    \* a loop created after close() sees _closed and returns at once
    /\ idle' = IF closed \/ nworkers # 0 THEN idle ELSE ClampWorkers(n)
    /\ ret' = RetNone
    /\ UNCHANGED <<sideVars, hlsVars, cfgVars, closed, queue, queued, active, semValue, semWaiters,
                   granted, cancelling, state, error, owner, locVars, diskVars, regVars,
                   procVars, histVars>>

\* Mutant: a put that drops the task when the queue already holds one.
QueuePutDropping(q, t) == IF Len(q) >= 1 THEN q ELSE Append(q, t)

\* Mutant: a put at the front of the queue.
QueuePutFront(q, t) == <<t>> \o q

\* await self._queue.put(task)
QueuePut(q, t) == Append(q, t)

\* Owners are numbered in order of first appearance.
UsersSoFar == {owner[t] : t \in {x \in Tasks : state[x] # "new"}}

\* Mutant: enqueue that does not look at _closed.
EnqueueRejectsNever(c) == FALSE

\* if self._closed: raise RuntimeError("TaskManager is closed")
EnqueueRejects(c) == c

Enqueue(t, u) ==
    /\ state[t] = "new"
    /\ \A s \in Tasks : s < t => state[s] # "new"
    /\ u \in UsersSoFar \/ \A v \in Users : v < u => v \in UsersSoFar
    /\ IF EnqueueRejects(closed)
       THEN /\ ret' = RetRaised
            /\ UNCHANGED <<state, owner, queued, queue>>
       ELSE /\ state' = [state EXCEPT ![t] = "queued"]
            /\ owner' = [owner EXCEPT ![t] = u]
            /\ queued' = queued \cup {t}
            /\ queue' = QueuePut(queue, t)
            /\ ret' = RetNone
    /\ UNCHANGED <<sideVars, hlsVars, cfgVars, closed, nworkers, idle, active, semValue, semWaiters,
                   granted, cancelling, error, locVars, diskVars, regVars, procVars,
                   histVars>>

\* cancel_task for the ids qs found in _queued and the ids as found in
\* _active (cancel_user applies it to all the owner's tasks in one atomic
\* stretch: neither coroutine ever suspends).
CancelSet(qs, as) ==
    /\ queued' = queued \ qs
    /\ state' = [t \in Tasks |-> IF t \in qs \cup as THEN "cancelled" ELSE state[t]]
    /\ stopSet' = StopSetAfter(stopSet, as)
    /\ psig' = PsigAfter(as)
    /\ cancelledQueued' = cancelledQueued \cup qs
    /\ cancelledActive' = cancelledActive \cup as
    /\ UNCHANGED <<sideVars, hlsVars, cfgVars, closed, nworkers, idle, queue, active, semValue,
                   semWaiters, granted, cancelling, error, owner, locVars, diskVars,
                   stopReg, procReg, palive, drain, runs, ended>>

CancelTask(t) ==
    /\ state[t] # "new"
    /\ IF t \in queued THEN CancelSet({t}, {})
       ELSE IF t \in active THEN CancelSet({}, {t})
       ELSE UNCHANGED <<sideVars, hlsVars, cfgVars, ctlVars, locVars, diskVars, regVars, procVars,
                        histVars>>
    /\ ret' = RetBool(t \in queued \cup active)

\* Mutant: the owner filter of cancel_user is missing.
OwnedByAnyone(u, ids) == ids

\* "if t.user_id == user_id" over the items of a task table
OwnedBy(u, ids) == {t \in ids : owner[t] = u}

CancelUser(u) ==
    /\ u \in UsersSoFar
    /\ LET qs == OwnedBy(u, queued)
           \* the second loop calls cancel_task(tid) for the ids in _active,
           \* after the first loop took the owner's ids out of _queued
           as == OwnedBy(u, active)
       IN /\ CancelSet(qs, as \ qs)
          \* n += 1 for every id of the first loop, and for every
          \* cancel_task(tid) of the second loop that returned True
          /\ ret' = RetInt(Cardinality(qs) + Cardinality(as \ qs))

\* Mutant: close() that leaves the queued tasks' state alone.
StateAfterCloseKeeping(st, qs) == st

\* for t in self._queued.values(): t.state = "cancelled"
StateAfterClose(st, qs) ==
    [t \in Tasks |-> IF t \in qs THEN "cancelled" ELSE st[t]]

Close ==
    /\ closed' = TRUE
    /\ nworkers' = 0
    \* w.cancel(): a loop waiting on the queue or the semaphore just ends, one
    \* that had been handed a permit gives it back (Semaphore.acquire), and a
    \* loop inside the runner unwinds when it is next resumed
    /\ idle' = 0
    /\ semValue' = semValue + granted
    /\ semWaiters' = <<>>
    /\ granted' = 0
    /\ cancelling' = {t \in Tasks : epc[t] # "none"}
    /\ state' = StateAfterClose(state, queued)
    /\ queued' = {}
    /\ ret' = RetNone
    /\ UNCHANGED <<sideVars, hlsVars, cfgVars, queue, active, error, owner, locVars, diskVars, regVars,
                   procVars, histVars>>

\* ---------------------------------------------------------------------
\* TaskManager._worker_loop
\* ---------------------------------------------------------------------

\* asyncio.Semaphore.locked()
SemLocked == semValue = 0 \/ semWaiters # <<>>

\* First statement of run_recording_task: _stop.setdefault(task_id, Event())
EngineEnter(t) ==
    /\ stopReg' = stopReg \cup {t}
    /\ epc' = [epc EXCEPT ![t] = "setup"]
    /\ runs' = [runs EXCEPT ![t] = @ + 1]

\* Mutant: the worker leaves the task in _queued when it activates it.
ActivateKeepingQueued(t) ==
    /\ UNCHANGED queued
    /\ active' = active \cup {t}
    /\ state' = [state EXCEPT ![t] = "active"]
    /\ EngineEnter(t)

\* Lines 210-216: queued -> active, then the runner is entered.
Activate(t) ==
    /\ queued' = queued \ {t}
    /\ active' = active \cup {t}
    /\ state' = [state EXCEPT ![t] = "active"]
    /\ EngineEnter(t)

\* The check made right after queue.get(): is the task still in _queued ?
StillQueued(t) == t \in queued

WorkerGet ==
    /\ idle > 0
    /\ queue # <<>>
    /\ LET t == Head(queue) IN
       /\ queue' = Tail(queue)
       /\ IF ~StillQueued(t)
          THEN UNCHANGED <<idle, queued, active, state, semValue, semWaiters,
                           stopReg, epc, runs>>
          ELSE IF ~SemLocked
          THEN /\ semValue' = semValue - 1
               /\ idle' = idle - 1
               /\ Activate(t)
               /\ UNCHANGED semWaiters
          ELSE /\ semWaiters' = Append(semWaiters, t)
               /\ idle' = idle - 1
               /\ UNCHANGED <<queued, active, state, semValue, stopReg, epc, runs>>
    /\ UNCHANGED <<sideVars, hlsVars, ret, cfgVars, closed, nworkers, granted, cancelling, error, owner,
                   runLocals, diskVars, stopSet, procReg, procVars,
                   ended, cancelledQueued, cancelledActive>>

\* A waiter that was handed the permit resumes inside "async with self._sem";
\* acquire() passes a permit released meanwhile on to the next waiter.
WorkerResume ==
    /\ granted > 0
    /\ LET t == Head(semWaiters)
           more == semValue > 0 /\ Len(semWaiters) > granted
       IN /\ semWaiters' = Tail(semWaiters)
          /\ semValue' = IF more THEN semValue - 1 ELSE semValue
          /\ granted' = IF more THEN granted ELSE granted - 1
          /\ Activate(t)
    /\ UNCHANGED <<sideVars, hlsVars, ret, cfgVars, closed, nworkers, idle, queue, cancelling, error,
                   owner, runLocals, diskVars, stopSet, procReg,
                   procVars, ended, cancelledQueued, cancelledActive>>

\* Mutant: the worker overwrites a cancellation with the runner's outcome.
StateAfterRunOverwriting(cur, exc) == IF exc = None THEN "done" ELSE "failed"

\* Mutant: the worker does not record the exception text.
ErrorAfterRunDropping(cur, err, exc) == err

\* Lines 217-222: the state and error the worker leaves on the task.
\* exc is None when the runner returned, str(e) when it raised.
StateAfterRun(cur, exc) ==
    IF cur = "cancelled" THEN "cancelled"
    ELSE IF exc = None THEN "done" ELSE "failed"

ErrorAfterRun(cur, err, exc) ==
    IF cur # "cancelled" /\ exc # None THEN exc ELSE err

\* Mutant: the way out of "async with self._sem" keeps the permit.
LeaveActiveKeepingPermit(t) ==
    /\ active' = active \ {t}
    /\ UNCHANGED <<semValue, granted>>

\* finally: _active.pop, task_done; then __aexit__ releases the permit:
\* Semaphore.release() hands it to the first waiter not yet woken, else
\* puts it back.
LeaveActive(t) ==
    /\ active' = active \ {t}
    /\ IF Len(semWaiters) > granted
       THEN granted' = granted + 1 /\ UNCHANGED semValue
       ELSE semValue' = semValue + 1 /\ UNCHANGED granted

\* The locals of run_recording_task are gone once it has ended.
EngineLeave(t) ==
    /\ epc' = [epc EXCEPT ![t] = "none"]
    /\ total' = [total EXCEPT ![t] = 0]
    /\ elapsed' = [elapsed EXCEPT ![t] = 0]
    /\ attempt' = [attempt EXCEPT ![t] = 0]
    /\ termWhy' = [termWhy EXCEPT ![t] = None]
    /\ part_sec' = [part_sec EXCEPT ![t] = 0]
    /\ part_index' = [part_index EXCEPT ![t] = 0]
    /\ limits' = [limits EXCEPT ![t] = <<>>]
    /\ sent' = [sent EXCEPT ![t] = <<>>]
    /\ exact' = [exact EXCEPT ![t] = TRUE]
    /\ xok' = [xok EXCEPT ![t] = FALSE]
    /\ trackers' = [trackers EXCEPT ![t] = <<>>]
    /\ remuxes' = [remuxes EXCEPT ![t] = 0]
    /\ vod_offset' = [vod_offset EXCEPT ![t] = 0]
    /\ fail_streak' = [fail_streak EXCEPT ![t] = 0]
    /\ backoff' = [backoff EXCEPT ![t] = 0]
    /\ usage' = [usage EXCEPT ![t] = 0]
    /\ stall' = [stall EXCEPT ![t] = -1]

\* Lines 454-456 of utils run only on a normal return (no try/finally there).
ClearRegs(t) ==
    /\ stopReg' = stopReg \ {t}
    /\ stopSet' = stopSet \ {t}
    /\ procReg' = [procReg EXCEPT ![t] = 0]

\* What the handler of the revision's "try:" (line 316) does with the
\* registries when the loop is left by an exception.
ClearRegsOnError(t) ==
    IF engine = "untils" THEN ClearRegs(t) ELSE UNCHANGED regVars

\* "cleanup dir": shutil.rmtree(out_dir), shutil.rmtree(tmp_dir), which also
\* run on the normal path only.
RemoveDirs(t) ==
    /\ files' = [files EXCEPT ![t] = {}]
    /\ dirs' = dirs \ {t}

\* What the handler of the revision's "try:" (line 316) does with the
\* working directories when the loop is left by an exception.
RemoveDirsOnError(t) ==
    IF engine = "untils" THEN RemoveDirs(t) ELSE UNCHANGED diskVars

Running(t) == epc[t] # "none" /\ t \notin cancelling

\* The runner returned (exc = None) or raised exc; the worker goes back to
\* the queue: lines 217-225 and 201-202.
RunnerEnds(t, exc) ==
    /\ state' = [state EXCEPT ![t] = StateAfterRun(state[t], exc)]
    /\ error' = [error EXCEPT ![t] = ErrorAfterRun(state[t], error[t], exc)]
    /\ ended' = [ended EXCEPT ![t] = IF exc = None THEN "returned" ELSE exc]
    /\ LeaveActive(t)
    /\ idle' = idle + 1
    /\ EngineLeave(t)
    /\ IF exc = None THEN ClearRegs(t) /\ RemoveDirs(t)
       ELSE ClearRegsOnError(t) /\ RemoveDirsOnError(t)
    /\ UNCHANGED <<sideVars, hlsVars, ret, cfgVars, closed, nworkers, queue, queued, semWaiters,
                   cancelling, owner, procVars, runs, cancelledQueued,
                   cancelledActive>>

\* stop() cancelled the worker inside the runner: CancelledError passes
\* "except Exception", so only the finally clause and the permit release run.
WorkerUnwind(t) ==
    /\ t \in cancelling
    /\ cancelling' = cancelling \ {t}
    /\ LeaveActive(t)
    /\ EngineLeave(t)
    /\ ClearRegsOnError(t)
    /\ RemoveDirsOnError(t)
    /\ ended' = [ended EXCEPT ![t] = "aborted"]
    /\ UNCHANGED <<sideVars, hlsVars, ret, cfgVars, closed, nworkers, idle, queue, queued, semWaiters,
                   state, error, owner, procVars, runs, cancelledQueued,
                   cancelledActive>>

\* ---------------------------------------------------------------------
\* run_recording_task (the runner)
\* ---------------------------------------------------------------------

\* is_live: the revision runs a task with duration_sec <= 0 until cancelled;
\* utils has no live mode and compares elapsed_total with total.
IsLive(t, tot) == engine = "untils" /\ tot <= 0

\* Condition of the main while loop.
LoopContinues(t, tot, el, ss) == (IsLive(t, tot) \/ el < tot) /\ t \notin ss

PcAtLoopTop(t, tot, el, ss) ==
    IF LoopContinues(t, tot, el, ss) THEN "refresh" ELSE "finish"


\* Mutant: every part gets the whole part budget.
ThisPartTWholeBudget(t) == part_sec[t]

\* this_part_t = min(part_sec, max(1, total - elapsed_total)); part_sec if live
ThisPartT(t) == IF IsLive(t, total[t]) THEN part_sec[t]
                ELSE Min(part_sec[t], Max(1, total[t] - elapsed[t]))

\* Setup up to the first evaluation of the loop condition: proxy setting,
\* channel resolution (raises when the channel is gone), part_sec from the
\* bitrate, VOD probe, mkdir of out_dir and tmp_dir, total read from
\* task.duration_sec, part_index = 1.
EngineSetup(t, d) ==
    /\ Running(t) /\ epc[t] = "setup"
    /\ \/ RunnerEnds(t, ExcChannel)
       \/ /\ total' = [total EXCEPT ![t] = d]
          /\ part_sec' = [part_sec EXCEPT ![t] = PartSecOf(inputs[t].bitrate_bps)]
          /\ part_index' = [part_index EXCEPT ![t] = 1]
          /\ dirs' = dirs \cup {t}
          /\ epc' = [epc EXCEPT ![t] = PcAtLoopTop(t, d, elapsed[t], stopSet)]
          /\ UNCHANGED <<sideVars, hlsVars, ret, cfgVars, ctlVars, elapsed, attempt, termWhy, limits,
                         sent, exact, xok, trackers, remuxes, moreLocals, files,
                         regVars, procVars, histVars>>

\* May the engine create the next encoder ?  The loop condition was
\* evaluated before the awaits of the refresh and nothing re-checks the
\* stop event before create_subprocess_exec.
MaySpawn(t) == TRUE

\* What the fetch of master_url may return: nothing is fetched without a
\* master_url.
Fetches(t) == IF inputs[t].master THEN Manifests ELSE {NoManifest}

\* Playlist / channel / master refresh awaits (m is the manifest fetched),
\* this_part_t, then create_subprocess_exec forks the encoder. cap bounds
\* the encoders of one run.
EngineSpawnWith(t, cap, m) ==
    /\ Running(t) /\ epc[t] = "refresh"
    /\ MaySpawn(t)
    /\ attempt[t] < cap
    /\ inputs' = [inputs EXCEPT ![t] = MasterRefresh(@, m)]
    /\ fetched' = [fetched EXCEPT ![t] = m]
    /\ attempt' = [attempt EXCEPT ![t] = @ + 1]
    /\ limits' = [limits EXCEPT ![t] = Append(@, ThisPartT(t))]
    /\ palive' = [palive EXCEPT ![t] = @ \cup {attempt[t] + 1}]
    /\ epc' = [epc EXCEPT ![t] = "spawned"]
    /\ UNCHANGED <<sideVars, ret, cfgVars, ctlVars, total, elapsed, termWhy,
                   part_sec, part_index, sent, exact, xok, trackers, remuxes,
                   moreLocals, diskVars, regVars, psig, drain, histVars>>

\* The refresh and the creation of the next encoder, or
\* create_subprocess_exec raising.
EngineSpawn(t, cap) ==
    \/ Running(t) /\ epc[t] = "refresh" /\ RunnerEnds(t, ExcSpawn)
    \/ \E m \in Fetches(t) : EngineSpawnWith(t, cap, m)

\* The process whose stderr is read once p is registered: the revision
\* starts _drain_stderr(p) in the same stretch; utils never reads the pipe.
DrainAfterRegister(p) == IF engine = "untils" /\ p \in Procs THEN p ELSE 0

\* create_subprocess_exec returned: _proc[task_id] = p, the drain task is
\* created (untils), progress loop entered.
EngineRegister(t) ==
    /\ Running(t) /\ epc[t] = "spawned"
    /\ procReg' = [procReg EXCEPT ![t] = attempt[t]]
    /\ drain' = [drain EXCEPT ![t] =
                   IF attempt[t] \in palive[t] THEN DrainAfterRegister(attempt[t])
                   ELSE 0]
    /\ stall' = [stall EXCEPT ![t] = -1]
    /\ fetched' = [fetched EXCEPT ![t] = NoManifest]
    /\ epc' = [epc EXCEPT ![t] = "poll"]
    /\ UNCHANGED <<sideVars, inputs, ret, cfgVars, ctlVars, total, elapsed, attempt, termWhy,
                   part_sec, part_index, limits, sent, exact, xok, trackers,
                   remuxes, vod_offset, fail_streak, backoff, usage, diskVars,
                   stopReg, stopSet, palive, psig, histVars>>

\* An encoder process exits (end of -t / -fs, source error, or a signal).
ProcExit(t, i) ==
    /\ i \in palive[t]
    /\ palive' = [palive EXCEPT ![t] = @ \ {i}]
    /\ psig' = [psig EXCEPT ![t] = @ \ {i}]
    /\ drain' = [drain EXCEPT ![t] = IF @ = i THEN 0 ELSE @]
    /\ UNCHANGED <<sideVars, hlsVars, ret, cfgVars, ctlVars, locVars, diskVars, regVars, histVars>>

\* Mutant: completion handling that does not wait for the encoder to exit.
EncoderExitedNoWait(t) == TRUE

\* p.returncode is not None, so that "rc = await p.wait()" returns.
EncoderExited(t) == procReg[t] \notin palive[t]

\* Size classes of the output of an attempt: "none" (no file or under 1 MB),
\* "small" (at least 1 MB, under 2 MB), "good" (2 MB or more).
Sizes == {"none", "small", "good"}

\* "rc != 0 and tiny": utils takes under 1 MB for tiny, the revision
\* under MIN_GOOD_BYTES = 2 MB. rcz: the exit code is 0.
TinyFailure(rcz, sz) ==
    ~rcz /\ (IF engine = "utils" THEN sz = "none" ELSE sz \in {"none", "small"})

\* elapsed_total / vod_offset after an attempt of measured duration d. utils
\* adds the duration before it looks at the output; the revision only for
\* a usable part.
ElapsedAfter(t, usable, d) ==
    IF engine = "utils" \/ usable THEN elapsed[t] + d ELSE elapsed[t]

RECURSIVE Pow(_, _)
Pow(b, k) == IF k = 0 THEN 1 ELSE b * Pow(b, k - 1)

RETRY_BACKOFF_BASE == 2
RETRY_BACKOFF_MAX == 20
BackoffMaxExp == 8
UtilsRetrySleep == 3

\* Delays are kept as integers: seconds times 5^8, so that 1.6^k = 8^k / 5^k
\* is exact for k <= 8.
DelayScale == Pow(5, BackoffMaxExp)

\* The sleep before the retry after the n-th consecutive tiny failure.
\* untils: min(RETRY_BACKOFF_MAX, RETRY_BACKOFF_BASE * 1.6 ** min(n, 8));
\* utils: asyncio.sleep(3).
BackoffDelay(n) ==
    IF engine = "utils" THEN UtilsRetrySleep * DelayScale
    ELSE LET k == Min(n, BackoffMaxExp)
         IN  Min(RETRY_BACKOFF_MAX * DelayScale,
                 RETRY_BACKOFF_BASE * Pow(8, k) * Pow(5, BackoffMaxExp - k))

\* The attempt ended with exit code 0 (rcz) or not, output of size class
\* sz and measured duration d.
EngineAttemptOutcome(t, rcz, sz, d) ==
    LET usable == ~TinyFailure(rcz, sz) IN
    /\ Running(t) /\ epc[t] = "poll"
    /\ t \notin stopSet
    /\ EncoderExited(t)
    /\ elapsed' = [elapsed EXCEPT ![t] = ElapsedAfter(t, usable, d)]
    /\ vod_offset' = [vod_offset EXCEPT ![t] = ElapsedAfter(t, usable, d)]
    /\ fail_streak' = [fail_streak EXCEPT ![t] = IF usable THEN 0 ELSE @ + 1]
    /\ backoff' = [backoff EXCEPT ![t] =
                     IF usable THEN 0 ELSE BackoffDelay(fail_streak[t] + 1)]
    /\ epc' = [epc EXCEPT ![t] = IF usable THEN "transfer" ELSE "backoff"]
    /\ exact' = [exact EXCEPT ![t] = @ /\ usable /\ d = ThisPartT(t)]
    /\ files' = [files EXCEPT ![t] = IF usable THEN @ \cup {"out"} ELSE @]
    /\ stall' = [stall EXCEPT ![t] = -1]
    /\ UNCHANGED <<sideVars, hlsVars, ret, cfgVars, ctlVars, total, attempt, termWhy, part_sec,
                   part_index, limits, sent, xok, trackers, remuxes, usage, dirs,
                   regVars, procVars, histVars>>

\* The progress loop ended with the encoder exited and no stop requested:
\* completion handling of the attempt (usable part, or tiny output of a
\* failed encoder).
EngineAttemptDone(t) ==
    \E rcz \in BOOLEAN, sz \in Sizes, d \in 1..ThisPartT(t) :
        EngineAttemptOutcome(t, rcz, sz, d)

\* The progress loop ended because the stop event is set.
\* utils: p.terminate() and break, without waiting for the process.
\* untils: _terminate_proc(p, 6.0): SIGINT, then wait up to the timeout.
EngineStopSeen(t) ==
    /\ Running(t) /\ epc[t] = "poll"
    /\ t \in stopSet
    /\ psig' = [psig EXCEPT ![t] = @ \cup StopTarget(t)]
    /\ epc' = [epc EXCEPT ![t] = IF engine = "utils" THEN "finish" ELSE "term"]
    /\ termWhy' = [termWhy EXCEPT ![t] = IF engine = "utils" THEN None ELSE "stop"]
    /\ stall' = [stall EXCEPT ![t] = -1]
    /\ UNCHANGED <<sideVars, hlsVars, ret, cfgVars, ctlVars, total, elapsed, attempt, part_sec,
                   part_index, limits, sent, exact, xok, trackers, remuxes,
                   vod_offset, fail_streak, backoff, usage, diskVars, regVars,
                   palive, drain, histVars>>

STALL_SECONDS == 25
PollSleep == 2

\* Seconds between two polls of the progress loop: asyncio.sleep(2.0), or
\* longer when the progress message is slow to go out.
PollGaps == {STALL_SECONDS}
EngPollGaps == {PollSleep, STALL_SECONDS}

\* The watchdog of the revision on a poll that saw no growth, gap seconds
\* after the previous one: stall_since is set and at least STALL_SECONDS old.
WatchdogFires(st, gap) ==
    engine = "untils" /\ st >= 0 /\ st + gap >= STALL_SECONDS

\* stall_since after a poll, as the age it has at that poll. Ages from
\* STALL_SECONDS on are not told apart.
StallAfter(st, grew, gap) ==
    IF grew THEN -1
    ELSE IF st = -1 THEN 0
    ELSE Min(st + gap, STALL_SECONDS)

\* One pass of the progress loop that goes back to sleep: size and speed
\* are read, the stall timer is updated, the progress message is edited.
EnginePoll(t, grew, gap) ==
    /\ Running(t) /\ epc[t] = "poll"
    /\ t \notin stopSet
    /\ ~EncoderExited(t)
    /\ ~(~grew /\ WatchdogFires(stall[t], gap))
    /\ stall' = [stall EXCEPT ![t] = StallAfter(@, grew, gap)]
    /\ UNCHANGED <<sideVars, hlsVars, ret, cfgVars, ctlVars, epc, total, elapsed, attempt, termWhy,
                   part_sec, part_index, limits, sent, exact, xok, trackers,
                   remuxes, vod_offset, fail_streak, backoff, usage, diskVars,
                   regVars, procVars, histVars>>

\* Stall watchdog (untils): a pass of the progress loop that saw no growth
\* for STALL_SECONDS while the encoder runs and no stop is requested
\* -> _terminate_proc(p, 6.0), then break.
EngineStall(t, gap) ==
    /\ Running(t) /\ epc[t] = "poll"
    /\ t \notin stopSet
    /\ ~EncoderExited(t)
    /\ WatchdogFires(stall[t], gap)
    /\ psig' = [psig EXCEPT ![t] = @ \cup StopTarget(t)]
    /\ epc' = [epc EXCEPT ![t] = "term"]
    /\ termWhy' = [termWhy EXCEPT ![t] = "stall"]
    /\ exact' = [exact EXCEPT ![t] = FALSE]
    /\ stall' = [stall EXCEPT ![t] = -1]
    /\ UNCHANGED <<sideVars, hlsVars, ret, cfgVars, ctlVars, total, elapsed, attempt, part_sec,
                   part_index, limits, sent, xok, trackers, remuxes, vod_offset,
                   fail_streak, backoff, usage, diskVars, regVars, palive, drain,
                   histVars>>

\* Processes of the task left when _terminate_proc returns: the process
\* exited within the timeout, or was killed and waited for.
AliveAfterTerminate(t) == palive[t] \ {procReg[t]}

\* _terminate_proc returns. After a stall the code falls through to the
\* checks that follow the progress loop.
EngineTermDone(t) ==
    /\ Running(t) /\ epc[t] = "term"
    /\ palive' = [palive EXCEPT ![t] = AliveAfterTerminate(t)]
    /\ psig' = [psig EXCEPT ![t] = @ \ {procReg[t]}]
    /\ drain' = [drain EXCEPT ![t] = IF @ = procReg[t] THEN 0 ELSE @]
    /\ epc' = [epc EXCEPT ![t] = IF termWhy[t] = "stop" THEN "finish" ELSE "poll"]
    /\ termWhy' = [termWhy EXCEPT ![t] = None]
    /\ UNCHANGED <<sideVars, hlsVars, ret, cfgVars, ctlVars, total, elapsed, attempt, part_sec,
                   part_index, limits, sent, exact, xok, trackers, remuxes,
                   moreLocals, diskVars, regVars, histVars>>

\* Retry sleep after a tiny output, then the loop condition.
EngineBackoff(t) ==
    /\ Running(t) /\ epc[t] = "backoff"
    /\ epc' = [epc EXCEPT ![t] = PcAtLoopTop(t, total[t], elapsed[t], stopSet)]
    /\ backoff' = [backoff EXCEPT ![t] = 0]
    /\ UNCHANGED <<sideVars, hlsVars, ret, cfgVars, ctlVars, total, elapsed, attempt, termWhy,
                   part_sec, part_index, limits, sent, exact, xok, trackers,
                   remuxes, vod_offset, fail_streak, usage, stall, diskVars,
                   regVars, procVars, histVars>>

\* How a call of send_video_with_progress ends: "ok" (returned), "late"
\* (raised inside its try block: network failure, rejection by Telegram) or
\* "early" (raised before the try block: BOT_TOKEN missing, open() failed).
SendOutcomes == {"ok", "late", "early"}

\* tracker.done when send_video_with_progress is left: the finally clause
\* (tracker.update(total, done=True)) belongs to the try block only.
TrackerDoneAfter(o) == o # "early"

\* What follows a failed transfer whose remux gave no file. utils: the
\* "if await _remux_to_mp4(...)" has no else branch, the code goes on with
\* ok = False. The text of the revision ends inside that if.
RemuxFailureRaises == engine = "untils"

\* Thumbnail, tracker and progress loop created, first transfer; when it
\* raises, _remux_to_mp4 (which never suspends) is called at once and r is
\* its result.
EngineTransfer(t) ==
    /\ Running(t) /\ epc[t] = "transfer"
    /\ \E o \in SendOutcomes, r \in BOOLEAN :
         IF o # "ok" /\ ~r /\ RemuxFailureRaises
         THEN RunnerEnds(t, ExcUpload)
         ELSE /\ trackers' = [trackers EXCEPT ![t] = <<TrackerDoneAfter(o)>>]
              /\ xok' = [xok EXCEPT ![t] = (o = "ok")]
              /\ remuxes' = [remuxes EXCEPT ![t] = IF o = "ok" THEN 0 ELSE 1]
              /\ exact' = [exact EXCEPT ![t] = @ /\ o = "ok"]
              /\ files' = [files EXCEPT ![t] =
                             IF o # "ok" /\ r THEN @ \cup {"mp4"} ELSE @]
              /\ epc' = [epc EXCEPT ![t] =
                           IF o # "ok" /\ r THEN "retry" ELSE "xwait"]
              /\ UNCHANGED <<sideVars, hlsVars, ret, cfgVars, ctlVars, total, elapsed, attempt,
                             termWhy, part_sec, part_index, limits, sent,
                             moreLocals, dirs, regVars, procVars, histVars>>

\* The transfer of the remuxed file with tracker2. Its exception is raised
\* inside the except clause of the first attempt and leaves the runner.
EngineRetry(t) ==
    /\ Running(t) /\ epc[t] = "retry"
    /\ \E o \in SendOutcomes :
         IF o = "ok"
         THEN /\ trackers' = [trackers EXCEPT ![t] = Append(@, TrackerDoneAfter(o))]
              /\ xok' = [xok EXCEPT ![t] = TRUE]
              /\ epc' = [epc EXCEPT ![t] = "xwait"]
              /\ UNCHANGED <<sideVars, hlsVars, ret, cfgVars, ctlVars, total, elapsed, attempt,
                             termWhy, part_sec, part_index, limits, sent, exact,
                             remuxes, moreLocals, diskVars, regVars, procVars,
                             histVars>>
         ELSE RunnerEnds(t, ExcUpload)

\* done of the tracker polled by the progress loop that "await loop_task"
\* waits for. utils: upload_edit_loop reads the variable tracker of the
\* enclosing scope, the tracker of the first attempt; the revision passes
\* the tracker of the attempt to the loop.
PolledDone(t) ==
    IF engine = "utils" THEN trackers[t][1] ELSE trackers[t][Len(trackers[t])]

\* "if ok: parts_uploaded += 1; await add_usage(...)"
UsageAfter(ok, n) == IF ok THEN n + 1 ELSE n

\* await loop_task returned: parts_uploaded and usage when ok, the files of
\* the part are unlinked, part_index += 1, then the loop condition.
EngineUploaded(t) ==
    /\ Running(t) /\ epc[t] = "xwait"
    /\ PolledDone(t)
    /\ sent' = [sent EXCEPT ![t] = IF xok[t] THEN Append(@, part_index[t]) ELSE @]
    /\ usage' = [usage EXCEPT ![t] = UsageAfter(xok[t], @)]
    /\ files' = [files EXCEPT ![t] = {}]
    /\ part_index' = [part_index EXCEPT ![t] = @ + 1]
    /\ xok' = [xok EXCEPT ![t] = FALSE]
    /\ trackers' = [trackers EXCEPT ![t] = <<>>]
    /\ remuxes' = [remuxes EXCEPT ![t] = 0]
    /\ epc' = [epc EXCEPT ![t] = PcAtLoopTop(t, total[t], elapsed[t], stopSet)]
    /\ UNCHANGED <<sideVars, hlsVars, ret, cfgVars, ctlVars, total, elapsed, attempt, termWhy,
                   part_sec, limits, exact, vod_offset, fail_streak, backoff,
                   stall, dirs, regVars, procVars, histVars>>

\* Directory cleanup, final message, registries popped, normal return.
EngineFinish(t) ==
    /\ Running(t) /\ epc[t] = "finish"
    /\ RunnerEnds(t, None)

\* ---------------------------------------------------------------------
\* Specification
\* ---------------------------------------------------------------------

EnvNext ==
    \/ \E n \in 0..MaxWorkers : Start(n)
    \/ \E t \in Tasks, u \in Users : Enqueue(t, u)
    \/ \E t \in Tasks : CancelTask(t)
    \/ \E u \in Users : CancelUser(u)
    \/ \E t \in Tasks : RequestStop(t)
    \/ Close

WorkerNext ==
    \/ WorkerGet
    \/ WorkerResume
    \/ \E t \in Tasks : WorkerUnwind(t)

EngineLoop ==
    \/ \E t \in Tasks, d \in 0..MaxDur : EngineSetup(t, d)
    \/ \E t \in Tasks : EngineSpawn(t, MaxSpawn)
    \/ \E t \in Tasks : EngineRegister(t)
    \/ \E t \in Tasks : EngineAttemptDone(t)
    \/ \E t \in Tasks : EngineStopSeen(t)
    \/ \E t \in Tasks, grew \in BOOLEAN, gap \in PollGaps : EnginePoll(t, grew, gap)
    \/ \E t \in Tasks : EngineBackoff(t)
    \/ \E t \in Tasks : EngineTransfer(t)
    \/ \E t \in Tasks : EngineRetry(t)
    \/ \E t \in Tasks : EngineUploaded(t)
    \/ \E t \in Tasks : EngineFinish(t)
    \/ \E t \in Tasks, i \in Procs : ProcExit(t, i)

\* Steps of the revision under untils/ only: the stall watchdog and the
\* return of the awaited _terminate_proc.
EngineWatchdog ==
    \/ \E t \in Tasks, gap \in PollGaps : EngineStall(t, gap)
    \/ \E t \in Tasks : EngineTermDone(t)

EngineNext == EngineLoop \/ EngineWatchdog

Next == EnvNext \/ WorkerNext \/ EngineNext

Spec == Init /\ [][Next]_vars

\* The event loop resumes every ready coroutine, every await on the outside
\* world (database, HTTP, Telegram, timers) completes, and every encoder
\* process eventually exits.
\* The runner of task t is one coroutine: the step it is suspended before.
EngineStep(t) ==
    \/ \E d \in 0..MaxDur : EngineSetup(t, d)
    \/ EngineSpawn(t, MaxSpawn)
    \/ EngineRegister(t)
    \/ EngineAttemptDone(t)
    \/ EngineStopSeen(t)
    \/ EngineBackoff(t)
    \/ EngineTransfer(t)
    \/ EngineRetry(t)
    \/ EngineUploaded(t)
    \/ EngineFinish(t)

Fairness ==
    /\ WF_vars(WorkerGet)
    /\ WF_vars(WorkerResume)
    /\ \A t \in Tasks :
         /\ WF_vars(WorkerUnwind(t))
         /\ WF_vars(EngineStep(t))
         /\ \A i \in 1..MaxSpawn : WF_vars(ProcExit(t, i))

\* The fair runs are those of the deployed engine (main.py imports
\* bot.utils.chunk_pipeline), which has no watchdog and awaits no
\* termination.
FairInit == InitWith({"utils"}, 0..MaxCap, {DirectInputs})

FairNext == EnvNext \/ WorkerNext \/ EngineLoop

FairSpec == FairInit /\ [][FairNext]_vars /\ Fairness

\* inputs of a direct recording whose bitrate is known or not
EngInputs == {[DirectInputs EXCEPT !.bitrate_bps = b] : b \in 0..EngMaxBw}

\* One task on a controller with one worker and one slot, with longer
\* durations, several part budgets and more encoder attempts.
EngInit == InitWith({"utils", "untils"}, {1}, EngInputs)

EngNext ==
    \/ Start(1)
    \/ Enqueue(1, 1)
    \/ WorkerGet
    \/ CancelTask(1)
    \/ \E d \in 0..EngMaxDur : EngineSetup(1, d)
    \/ EngineSpawn(1, EngMaxSpawn)
    \/ EngineRegister(1)
    \/ EngineAttemptDone(1)
    \/ EngineStopSeen(1)
    \/ \E grew \in BOOLEAN, gap \in EngPollGaps : EnginePoll(1, grew, gap)
    \/ \E gap \in EngPollGaps : EngineStall(1, gap)
    \/ EngineTermDone(1)
    \/ EngineBackoff(1)
    \/ EngineTransfer(1)
    \/ EngineRetry(1)
    \/ EngineUploaded(1)
    \/ EngineFinish(1)
    \/ \E i \in Procs : ProcExit(1, i)

EngSpec == EngInit /\ [][EngNext]_vars

\* Runs of a single task recorded from a master manifest: every part is
\* preceded by a refresh of the manifest.
HlsInit == InitWith({"utils", "untils"}, {1}, MasterInputs)

HlsNext ==
    \/ Start(1)
    \/ Enqueue(1, 1)
    \/ WorkerGet
    \/ EngineSetup(1, HlsDur)
    \/ EngineSpawn(1, HlsMaxSpawn)
    \/ EngineRegister(1)
    \/ EngineAttemptDone(1)
    \/ EngineBackoff(1)
    \/ EngineTransfer(1)
    \/ EngineRetry(1)
    \/ EngineUploaded(1)
    \/ EngineFinish(1)
    \/ \E i \in Procs : ProcExit(1, i)

HlsSpec == HlsInit /\ [][HlsNext]_vars

TypeOK ==
    /\ engine \in {"utils", "untils"}
    /\ max_concurrent \in 1..MaxCap
    /\ semValue \in 0..max_concurrent
    /\ granted \in 0..Len(semWaiters)
    /\ queued \subseteq Tasks /\ active \subseteq Tasks
    /\ \A t \in Tasks : state[t] \in {"new", "queued", "active"} \cup Terminal
    /\ \A t \in Tasks : attempt[t] \in 0..Max(MaxSpawn, EngMaxSpawn)
    /\ \A t \in Tasks : palive[t] \subseteq Procs
    /\ \A t \in Tasks : Len(trackers[t]) <= 2 /\ remuxes[t] \in 0..1
    /\ \A t \in Tasks : files[t] \subseteq {"out", "mp4"}
    /\ dirs \subseteq Tasks

\* ---------------------------------------------------------------------
\* Claims
\* ---------------------------------------------------------------------

EncoderTasks == {t \in Tasks : palive[t] # {}}

\* C1: the number of tasks whose encoder process is running at the same
\* instant never exceeds max_concurrent.
C1_EncoderCap == Cardinality(EncoderTasks) <= max_concurrent

\* C2: a task cancelled (cancelTask / cancelUser) while still queued never
\* acquires a slot, never becomes active, and no encoder is spawned for it.
C2_CancelledQueuedNeverRuns ==
    \A t \in cancelledQueued : t \notin active /\ runs[t] = 0 /\ palive[t] = {}

\* C3: once a task's state is done, failed or cancelled it never changes again
\* under any later operation.
C3_TerminalFinal ==
    [][\A t \in Tasks : state[t] \in Terminal => state'[t] = state[t]]_vars

\* C4: once a task's stop flag is set, the capture engine spawns no further
\* encoder process for that task, at whatever point of the main loop it is.
C4_NoSpawnAfterStop ==
    [][\A t \in Tasks : t \in stopSet => palive'[t] \subseteq palive[t]]_vars

\* C5: cancelTask on an active task leaves it cancelled; its running encoder
\* is signalled at the call, and termination is enforced (forced kill after
\* the grace period), so that no encoder of the task is left once the task
\* has left the active set and released its slot.
C5_CancelActiveTerminates ==
    /\ [][\A t \in active :
            t \in cancelledActive' \ cancelledActive
               => state'[t] = "cancelled" /\ StopTarget(t) \subseteq psig'[t]]_vars
    /\ [](\A t \in cancelledActive :
            ended[t] \in {"returned"} \cup ExcTexts => palive[t] = {})

\* C6: within one task at most one encoder process is alive at any instant.
C6_OneEncoderPerTask == \A t \in Tasks : Cardinality(palive[t]) <= 1

\* C6 witness: the revision retries a part; the second encoder of the task
\* runs and the first one has exited.
C6_Witness ==
    \E t \in Tasks :
        /\ engine = "untils" /\ total[t] > 0 /\ elapsed[t] = 0
        /\ attempt[t] = 2 /\ palive[t] = {2}

\* C7 as stated: whenever the engine raised for a task, the task is failed
\* with the exception text as its error and is out of the active set.
C7_RaiseMarksFailed ==
    \A t \in Tasks :
        ended[t] \in ExcTexts
           => state[t] = "failed" /\ error[t] = ended[t] /\ t \notin active

\* Worker loops that are alive: waiting on the queue, on the semaphore, or
\* inside the runner.
LiveWorkers ==
    idle + Len(semWaiters) + Cardinality({t \in Tasks : Running(t)})

\* C7 amended: when the engine raises an exception for a task, the task is
\* failed with the exception text as its error unless it was cancelled while
\* active (then it stays cancelled and no error is recorded); in both cases
\* it leaves the active set, the permit is released, and the worker is back
\* at the queue with the number of live workers unchanged.
C7_RaiseRecorded ==
    /\ [](\A t \in Tasks :
            ended[t] \in ExcTexts
               => /\ t \notin active
                  /\ IF t \in cancelledActive
                     THEN state[t] = "cancelled" /\ error[t] = None
                     ELSE state[t] = "failed" /\ error[t] = ended[t])
    /\ [][\A t \in Tasks :
            (ended[t] = "no" /\ ended'[t] \in ExcTexts)
               => /\ LiveWorkers' = LiveWorkers
                  /\ idle' = idle + 1
                  /\ semValue' + granted' = semValue + granted + 1]_vars

\* C7 witness: with a single worker, task 1 failed by an exception and the
\* worker went on to run task 2.
C7_Witness ==
    /\ nworkers = 1
    /\ ended[1] \in ExcTexts /\ state[1] = "failed" /\ error[1] = ended[1]
    /\ state[2] = "active"

\* C8: a task cancelled while active ends cancelled whether the engine
\* returns or raises; its state is never overwritten and no error is recorded.
C8_CancelWins ==
    \A t \in cancelledActive : state[t] = "cancelled" /\ error[t] = None

\* C8 witness: two tasks cancelled while active, one whose engine returned
\* and one whose engine raised.
C8_Witness ==
    \E t1, t2 \in cancelledActive :
        ended[t1] = "returned" /\ ended[t2] \in ExcTexts

\* A running task that never finishes: its runner waits for a progress
\* loop whose tracker is never finalized.
Stuck == \E t \in Tasks : epc[t] = "xwait" /\ ~PolledDone(t)

\* C9: with the controller started and not stopped, and no running task
\* that never finishes, every queued task that is not cancelled eventually
\* becomes active.
C9_QueuedBecomesActive ==
    \A t \in Tasks :
        (state[t] = "queued" /\ nworkers > 0)
            ~> (state[t] = "active" \/ t \in cancelledQueued \/ closed \/ Stuck)

\* C9 witness: a task that had to wait for a slot is still queued and has
\* just been handed the permit released by a task that finished.
C9_Witness ==
    /\ nworkers > 0 /\ ~closed
    /\ granted > 0 /\ semWaiters # <<>>
    /\ state[Head(semWaiters)] = "queued"

C11_EnqueueClosedRejected ==
    [][\A t \in Tasks, u \in Users :
         (closed /\ Enqueue(t, u))
            => (ret' = RetRaised /\ UNCHANGED <<queued, queue, state>>)]_vars

\* C11 witness: enqueue was called on a controller closed with a task queued,
\* and raised.
C11_Witness ==
    /\ closed /\ ret = RetRaised
    /\ \E t \in Tasks : state[t] = "cancelled" /\ state[NTasks] = "new"

\* C12: stop() leaves every task still queued at the call cancelled and the
\* queued set empty, and afterwards no task starts running and the tasks it
\* cancelled stay cancelled.
C12_StopCancelsQueued ==
    [][/\ (~closed /\ closed')
          => (queued' = {} /\ \A t \in queued : state'[t] = "cancelled")
       /\ closed
          => /\ queued' = {}
             /\ runs' = runs
             /\ active' \subseteq active
             /\ \A t \in Tasks :
                  (state[t] = "cancelled" /\ runs[t] = 0)
                     => state'[t] = "cancelled"]_vars

\* C12 witness: the controller was stopped with a task still queued while a
\* worker was inside the runner with another one.
C12_Witness ==
    /\ closed /\ queued = {}
    /\ \E t \in Tasks :
         /\ state[t] = "cancelled" /\ runs[t] = 0
         /\ t \notin cancelledQueued \cup cancelledActive
    /\ \E s \in Tasks : ended[s] = "aborted"

\* C13: cancel_user leaves every task of the owner that was queued or active
\* cancelled, signals the active ones to stop, returns the number of those
\* tasks, and changes no task of another owner.
C13_CancelUserCounts ==
    [][\A u \in Users :
         CancelUser(u)
            => LET mine == {t \in queued \cup active : owner[t] = u} IN
               /\ ret' = RetInt(Cardinality(mine))
               /\ \A t \in mine : state'[t] = "cancelled"
               /\ \A t \in mine \cap active :
                    t \in stopSet' /\ StopTarget(t) \subseteq psig'[t]
               /\ \A t \in Tasks \ mine :
                    /\ state'[t] = state[t]
                    /\ (t \in queued') = (t \in queued)
                    /\ (t \in stopSet') = (t \in stopSet)
                    /\ psig'[t] = psig[t]]_vars

\* C13 witness: cancel_user returned 2 for an owner with one queued and one
\* active task while another owner exists.
C13_Witness ==
    /\ ret = RetInt(2)
    /\ cancelledQueued # {} /\ cancelledActive # {}

\* Everything start() must leave alone.
StartFrame ==
    <<cfgVars, closed, queue, queued, active, semValue, semWaiters, granted,
      cancelling, state, error, owner, locVars, diskVars, regVars, procVars,
      histVars>>

C15_StopInactiveNoOp ==
    \A t \in Tasks :
        t \notin active
           => StopSetAfter(stopSet, {t}) = stopSet /\ PsigAfter({t}) = psig

CeilDiv(a, b) == (a + b - 1) \div b

\* The time limits of the parts of a bounded task of duration D with part
\* budget B: min(B, remaining) until nothing remains.
RECURSIVE ExpectedLimits(_, _)
ExpectedLimits(D, B) ==
    IF D <= 0 THEN <<>>
    ELSE <<Min(B, D)>> \o ExpectedLimits(D - Min(B, D), B)

\* The runner is between the start of the encoder of a part and the end of
\* the handling of that part.
InPart(t) == epc[t] \in {"spawned", "poll", "term", "transfer", "retry", "xwait"}

\* C16: in a run of a bounded task in which every part so far lasted exactly
\* its time limit and nothing failed, the time limits of the parts started
\* are the first ones of min(B, remaining), never more than ceil(D/B); the
\* parts transferred are 1, 2, 3.. in this order; the encoder of a part
\* starts only after every earlier part was transferred; the loop goes on
\* while parts are missing and, not stopped, ends with all ceil(D/B) parts.
C16_BoundedParts ==
    \A t \in Tasks :
        (epc[t] \notin {"none", "setup"} /\ total[t] > 0 /\ exact[t])
           => LET E == ExpectedLimits(total[t], part_sec[t])
                  n == Len(limits[t])
              IN  /\ Len(E) = CeilDiv(total[t], part_sec[t])
                  /\ n <= Len(E)
                  /\ limits[t] = SubSeq(E, 1, n)
                  /\ sent[t] = [i \in 1..Len(sent[t]) |-> i]
                  /\ Len(sent[t]) \in {n - 1, n}
                  /\ InPart(t) => Len(sent[t]) = n - 1
                  /\ part_index[t] = Len(sent[t]) + 1
                  /\ epc[t] = "refresh" => Len(sent[t]) = n /\ n < Len(E)
                  /\ (epc[t] = "finish" /\ t \notin stopSet)
                        => Len(sent[t]) = n /\ n = Len(E)

\* C16 witness: a task of duration 5 with part budget 2 is about to return
\* after the parts 2 + 2 + 1, each transferred.
C16_Witness ==
    /\ epc[1] = "finish" /\ exact[1] /\ 1 \notin stopSet
    /\ total[1] = 5 /\ part_sec[1] = 2
    /\ limits[1] = <<2, 2, 1>> /\ sent[1] = <<1, 2, 3>>

\* C17: a task of target duration 0 runs in live mode: its capture loop ends
\* only once the stop flag of the task is set, never by elapsed time, and
\* after the flag is set no further part is started.
C17_LiveUntilCancelled ==
    [][\A t \in Tasks :
         /\ (epc'[t] = "finish" /\ total'[t] = 0) => t \in stopSet'
         /\ (InPart(t) \/ epc[t] \in {"refresh", "backoff"})
               /\ total[t] = 0 /\ t \in stopSet
               => Len(limits'[t]) <= Len(limits[t])]_vars

\* C18: a first transfer that fails is followed by exactly one remux; a
\* remux that produced a file is followed by one retry with a second
\* tracker; and when the handling of such a part ends, with the retry
\* succeeded or failed, neither the original nor the remuxed file is left.
C18_RemuxRetryCleanup ==
    [][\A t \in Tasks :
         /\ (epc[t] = "transfer" /\ epc'[t] \in {"retry", "xwait"} /\ ~xok'[t])
               => remuxes'[t] = 1
         /\ (epc[t] = "retry" /\ epc'[t] = "xwait")
               => Len(trackers'[t]) = 2 /\ remuxes'[t] = 1
         /\ (epc[t] \in {"retry", "xwait"} /\ remuxes[t] = 1 /\ t \notin cancelling
                /\ epc'[t] \notin {"retry", "xwait"})
               => files'[t] = {}]_vars

\* C19: whenever a call of send_video_with_progress has ended, by return or
\* by an error, the tracker that was passed to it has done = true.
C19_TrackerFinalized ==
    \A t \in Tasks : \A i \in 1..Len(trackers[t]) : trackers[t][i]

\* C20: once the run of a task has ended, by return (success or
\* cancellation) or by an exception, its working directories are gone.
C20_DirsRemoved ==
    \A t \in Tasks : ended[t] \in {"returned"} \cup ExcTexts => t \notin dirs

\* C21: add_usage is called once when the handling of a part whose transfer
\* succeeded ends, at no other moment, so that the calls of a run always
\* equal the parts it counted as uploaded.
C21_UsagePerUploadedPart ==
    [][\A t \in Tasks :
         /\ usage[t] = Len(sent[t])
         /\ (epc[t] = "xwait" /\ xok[t] /\ epc'[t] # "xwait")
               => usage'[t] = usage[t] + 1
         /\ (epc'[t] # "none" /\ usage'[t] # usage[t])
               => epc[t] = "xwait" /\ xok[t] /\ usage'[t] = usage[t] + 1]_vars

\* C24: an attempt that ends with a nonzero exit code and an output that is
\* missing or under 2 MB leaves elapsed time, resume offset and part index
\* as they were, adds one to the failure counter and does not end the run;
\* every other outcome resets the counter and advances elapsed time and
\* resume offset by the measured duration; the resume offset of a run never
\* decreases.
C24_TinyFailureRetried ==
    [][\A t \in Tasks :
         /\ \A rcz \in BOOLEAN, sz \in Sizes, d \in 1..ThisPartT(t) :
               EngineAttemptOutcome(t, rcz, sz, d)
                  => IF ~rcz /\ sz \in {"none", "small"}
                     THEN /\ elapsed'[t] = elapsed[t]
                          /\ vod_offset'[t] = vod_offset[t]
                          /\ part_index'[t] = part_index[t]
                          /\ fail_streak'[t] = fail_streak[t] + 1
                          /\ state'[t] = state[t] /\ epc'[t] = "backoff"
                     ELSE /\ fail_streak'[t] = 0
                          /\ elapsed'[t] = elapsed[t] + d
                          /\ vod_offset'[t] = vod_offset[t] + d
         /\ epc'[t] # "none" => vod_offset'[t] >= vod_offset[t]]_vars

\* min(20, 2 * 1.6^min(n, 8)) seconds, times DelayScale.
ClaimedDelay(n) ==
    Min(20 * DelayScale, 2 * Pow(8, Min(n, 8)) * Pow(5, 8 - Min(n, 8)))

\* C25: the sleep that follows the n-th consecutive tiny failure lasts
\* min(20, 2 * 1.6^min(n, 8)) seconds: never more than 20 s, longer than the
\* sleep before it while that one was under 20 s, and 20 s from then on.
C25_BackoffDelay ==
    \A t \in Tasks :
        epc[t] = "backoff"
           => LET n == fail_streak[t]
                  cap == 20 * DelayScale
              IN  /\ n >= 1
                  /\ backoff[t] = ClaimedDelay(n)
                  /\ backoff[t] <= cap
                  /\ n >= 2 => IF BackoffDelay(n - 1) < cap
                                THEN backoff[t] > BackoffDelay(n - 1)
                                ELSE backoff[t] = cap

\* C27: the engine never goes on with a part whose transfer failed and
\* whose remux gave no file to retry with: wherever the runner waits for
\* the progress loop before it continues, the part was transferred.
C27_RemuxFailureRaises ==
    \A t \in Tasks : epc[t] = "xwait" => xok[t]

\* C30: from the moment the engine holds the process it created until that
\* process exits, a drain task reads its diagnostic output.
C30_StderrDrained ==
    \A t \in Tasks : procReg[t] \in palive[t] => drain[t] = procReg[t]

\* C26: an encoder is terminated for a stall only by a poll that closes a
\* span of at least STALL_SECONDS in which every poll saw no growth, and
\* every such poll does terminate it, so no encoder is left polled with
\* such a span behind it; a poll that sees growth clears the timer; after
\* the termination the attempt goes to the ordinary completion handling
\* with the elapsed time untouched.
C26_StallWatchdog ==
    /\ [](\A t \in Tasks : epc[t] = "poll" => stall[t] < STALL_SECONDS)
    /\ [][\A t \in Tasks :
            /\ \A gap \in EngPollGaps :
                  /\ EngineStall(t, gap)
                        => stall[t] >= 0 /\ stall[t] + gap >= STALL_SECONDS
                  /\ EnginePoll(t, TRUE, gap) => stall'[t] = -1
            /\ (termWhy[t] # "stall" /\ termWhy'[t] = "stall")
                  => \E gap \in EngPollGaps : EngineStall(t, gap)
            /\ (termWhy[t] = "stall" /\ epc'[t] \notin {"term", "none"})
                  => epc'[t] = "poll" /\ elapsed'[t] = elapsed[t]]_vars

\* ---------------------------------------------------------------------
\* Manifest refresh (specification HlsSpec)
\* ---------------------------------------------------------------------

\* C22: parse_master is duplicate-free and keeps first-seen order: in what
\* it returns for a fetched manifest the variants are in the order of the
\* file, and no two variants and no two audio entries share a resolved URL.
\* (Determinism holds by construction: ParseMaster is a function of the text.)
C22_ParseMasterDuplicateFree ==
    \A t \in Tasks :
        LET variants == ParseMaster(fetched[t])[1]
            audios == ParseMaster(fetched[t])[2]
        IN /\ \A i, j \in 1..Len(variants) :
                  i < j => /\ variants[i].id < variants[j].id
                           /\ variants[i].url # variants[j].url
           /\ \A i, j \in 1..Len(audios) :
                  i < j => audios[i].url # audios[j].url

\* C23: the refresh before a part of a task with a master manifest selects
\* the first variant of the manifest whose label equals the chosen label
\* case-insensitively, and a variant of maximal bandwidth when none does.
C23_VariantByLabelElseBandwidth ==
    [][\A t \in Tasks :
         (epc[t] = "refresh" /\ epc'[t] = "spawned" /\ inputs[t].master) =>
             \A vs \in {ParseMaster(fetched'[t])[1]} :
             LET hits == {i \in 1..Len(vs) :
                            Lower(vs[i].label) = Lower(inputs[t].variant_label)}
             IN IF Len(vs) = 0 THEN inputs'[t].video_url = inputs[t].video_url
                ELSE IF hits # {}
                THEN \E i \in hits : /\ \A j \in hits : i <= j
                                     /\ inputs'[t].video_url = vs[i].url
                ELSE \E i \in 1..Len(vs) :
                        /\ inputs'[t].video_url = vs[i].url
                        /\ \A j \in 1..Len(vs) :
                               vs[j].bandwidth <= vs[i].bandwidth]_vars

\* the refresh before the second part found the chosen label second in the
\* manifest, behind a variant of higher bandwidth, and selected it
C23_Witness ==
    \E t \in Tasks :
        /\ epc[t] = "spawned" /\ attempt[t] = 2
        /\ inputs[t].variant_label = "HD"
        /\ fetched[t].vs = << [label |-> "sd", bw |-> 3, uri |-> "./a"],
                              [label |-> "hd", bw |-> 0, uri |-> "b"] >>
        /\ inputs[t].video_url = "b"

\* C28: a refresh never empties the audio selection: with ALL the list
\* becomes every track of the manifest, with an id the tracks of that id if
\* there are any, and otherwise (no match, no audio in the manifest, failed
\* refresh) the previous list is kept.
C28_AudioSelectionKept ==
    [][\A t \in Tasks :
         (epc[t] = "refresh" /\ epc'[t] = "spawned" /\ inputs[t].master) =>
             \A audios \in {ParseMaster(fetched'[t])[2]} :
             LET choice == inputs[t].audio_choice
                 match == SelectSeq(audios, LAMBDA a : a.id = choice)
             IN /\ inputs'[t].audio_urls =
                       IF Len(audios) > 0 /\ choice = "ALL"
                       THEN [i \in 1..Len(audios) |-> audios[i].url]
                       ELSE IF Len(match) > 0
                       THEN [i \in 1..Len(match) |-> match[i].url]
                       ELSE inputs[t].audio_urls
                /\ Len(inputs[t].audio_urls) > 0
                       => Len(inputs'[t].audio_urls) > 0]_vars

\* the chosen id is gone from a manifest that still lists audio, and the
\* previous list was kept
C28_Witness ==
    \E t \in Tasks :
        /\ epc[t] = "spawned"
        /\ inputs[t].audio_choice = "de"
        /\ fetched[t].as = << [id |-> "en", uri |-> "./x"],
                              [id |-> "fr", uri |-> "y"] >>
        /\ inputs[t].audio_urls = <<"x">>

\* C29: the time limit of the encoder started after a refresh is the part
\* budget of the bitrate the refresh left in the inputs (capped by what
\* remains of the duration).
C29_BudgetFollowsBitrate ==
    [][\A t \in Tasks :
         (epc[t] = "refresh" /\ epc'[t] = "spawned" /\ inputs[t].master) =>
             limits'[t][Len(limits'[t])] =
                 Min(PartSecOf(inputs'[t].bitrate_bps),
                     Max(1, total[t] - elapsed[t]))]_vars

\* ---------------------------------------------------------------------
\* Slots, registries and terminal states
\* ---------------------------------------------------------------------

\* C36 as stated: at every instant the number of active tasks is
\* max_concurrent minus the free permits of the semaphore.
C36_ActiveEqualsPermits == Cardinality(active) = max_concurrent - semValue

\* C36: the permits not free are those of the active tasks plus those
\* handed to a woken waiter that has not resumed yet, and every way out of
\* the active set (done, failed, cancelled, worker cancelled by stop())
\* gives one permit back.
C36_PermitAccounting ==
    /\ [](Cardinality(active) + granted = max_concurrent - semValue)
    /\ [][\A t \in active :
            t \notin active'
               => /\ semValue' + granted' = semValue + granted + 1
                  /\ active' = active \ {t}]_vars

\* a task has ended and its permit went to the worker waiting at the
\* semaphore, which has not resumed: nothing is active and no permit is free
C36_Witness ==
    /\ granted = 1 /\ active = {} /\ semValue = 0
    /\ \E t \in Tasks : ended[t] # "no" /\ state[t] \in Terminal

\* C37: the runner is invoked at most once per enqueued task, no task is in
\* the queued set and in the active set at once, every task of the queued
\* set has state queued and every task of the active set has state active
\* or cancelled.
C37_QueuedActiveDisjoint ==
    /\ queued \cap active = {}
    /\ \A t \in Tasks : runs[t] <= 1
    /\ \A t \in queued : state[t] = "queued"
    /\ \A t \in active : state[t] \in {"active", "cancelled"}

\* one task runs after cancel_task found it active, the other still waits
C37_Witness ==
    \E t, q \in Tasks :
        /\ t \in active /\ state[t] = "cancelled" /\ runs[t] = 1
        /\ q \in queued /\ runs[q] = 0

\* C38: once stop() has been called and the cancelled workers have unwound,
\* the active set is empty and every task known to the controller is done,
\* failed or cancelled.
C38_StoppedAllTerminal ==
    (closed /\ cancelling = {} /\ nworkers = 0)
        => /\ active = {}
           /\ \A t \in Tasks : state[t] # "new" => state[t] \in Terminal

\* C39: once run_recording_task has ended for a task, by return, by
\* cancellation or by an exception, neither the stop-flag registry nor the
\* process registry holds an entry for the task.
C39_RegistriesCleared ==
    \A t \in Tasks :
        (ended[t] # "no" /\ epc[t] = "none")
            => t \notin stopReg /\ procReg[t] = 0

\* C32: a run whose capture loop was ended by the stop event (the loop
\* would have continued without it) and that returns normally leaves its
\* task cancelled, not done, whoever set the event.
C32_StoppedRunIsCancelled ==
    [][\A t \in Tasks :
          (/\ epc[t] = "finish" /\ epc'[t] = "none"
           /\ ended'[t] = "returned"
           /\ t \in stopSet
           /\ LoopContinues(t, total[t], elapsed[t], {}))
              => state'[t] = "cancelled"]_vars

\* C31: when the handling of a part's transfer ends, whatever its outcome
\* (sent, first attempt failed, remux failed, retry failed), the files of
\* the part are gone (the thumbnail is unlinked by the same loop as the
\* output and the remuxed file), and no encoder is created while files of
\* an earlier part are on disk. Runs aborted by stop() are left aside.
C31_PartArtifactsDeleted ==
    [][\A t \in Tasks :
         /\ (/\ epc[t] \in {"transfer", "retry", "xwait"}
             /\ epc'[t] \notin {"transfer", "retry", "xwait"}
             /\ t \notin cancelling)
               => files'[t] = {}
         /\ (epc[t] = "refresh" /\ epc'[t] = "spawned") => files[t] = {}]_vars

\* ---------------------------------------------------------------------
\* utils/ffmpeg_runner.py: one recording session per user
\* ---------------------------------------------------------------------

MaxSessions == 2     \* sessions accepted per user

\* finally of _record_worker: _sessions.pop(user_id, None); the worker ends.
RecWorkerEnds(u) ==
    /\ sessions' = sessions \ {u}
    /\ recpc' = [recpc EXCEPT ![u] = "none"]

\* start_recording: rejected through error_callback of the call when the
\* user has an entry; otherwise the session is registered and its worker
\* task is created.
StartRecording(u) ==
    /\ IF u \in sessions
       THEN /\ rec_ret' = "rejected"
            /\ UNCHANGED <<sessions, stop_requested, proc, recpc, accepted>>
       ELSE /\ accepted[u] < MaxSessions
            /\ rec_ret' = "accepted"
            /\ sessions' = sessions \cup {u}
            /\ stop_requested' = [stop_requested EXCEPT ![u] = FALSE]
            /\ proc' = [proc EXCEPT ![u] = "none"]
            /\ recpc' = [recpc EXCEPT ![u] = "start"]
            /\ accepted' = [accepted EXCEPT ![u] = @ + 1]
    /\ UNCHANGED <<done_calls, error_calls, coreVars, quotaVars, trkVars>>

\* stop_recording: no-op without an entry; otherwise the flag is set and a
\* running process is terminated (its exit is RecProcExit).
StopRecording(u) ==
    /\ u \in sessions
    /\ stop_requested' = [stop_requested EXCEPT ![u] = TRUE]
    /\ UNCHANGED <<sessions, proc, recpc, accepted, done_calls, error_calls,
                   rec_ret, coreVars, quotaVars, trkVars>>

\* _record_worker up to the loop: create_subprocess_exec raises (the error
\* callback is called and the worker returns before its try block) or the
\* process is stored in session.proc.
RecSpawn(u) ==
    /\ recpc[u] = "start"
    /\ \/ /\ error_calls' = [error_calls EXCEPT ![u] = @ + 1]
          /\ recpc' = [recpc EXCEPT ![u] = "none"]
          /\ UNCHANGED <<sessions, proc>>
       \/ /\ proc' = [proc EXCEPT ![u] = "running"]
          /\ recpc' = [recpc EXCEPT ![u] = "loop"]
          /\ UNCHANGED <<sessions, error_calls>>
    /\ UNCHANGED <<stop_requested, accepted, done_calls, rec_ret, coreVars, quotaVars, trkVars>>

\* ffmpeg exits: end of -t, source error, or the signal of a terminate.
RecProcExit(u) ==
    /\ proc[u] = "running"
    /\ proc' = [proc EXCEPT ![u] = "exited"]
    /\ UNCHANGED <<sessions, stop_requested, recpc, accepted, done_calls,
                   error_calls, rec_ret, coreVars, quotaVars, trkVars>>

\* proc.terminate() of an asyncio process raises ProcessLookupError once
\* the process has exited.
TerminateRaises(u) == proc[u] = "exited"

\* Loop iteration that finds stop_requested: proc.terminate() (not guarded
\* by a try), wait or kill, break, done_callback (the too-short test is
\* skipped for a requested stop), finally.
RecStopSeen(u) ==
    /\ recpc[u] = "loop" /\ stop_requested[u]
    /\ IF TerminateRaises(u)
       THEN UNCHANGED <<proc, done_calls>>
       ELSE /\ proc' = [proc EXCEPT ![u] = "exited"]
            /\ done_calls' = [done_calls EXCEPT ![u] = @ + 1]
    /\ RecWorkerEnds(u)
    /\ UNCHANGED <<stop_requested, accepted, error_calls, rec_ret, coreVars, quotaVars, trkVars>>

\* Loop iteration that finds the process exited without a stop request:
\* break, then error_callback when the recording was shorter than
\* MIN_VALID_DURATION_SECONDS (short), else done_callback; finally.
RecExitSeen(u, short) ==
    /\ recpc[u] = "loop" /\ ~stop_requested[u] /\ proc[u] = "exited"
    /\ IF short
       THEN /\ error_calls' = [error_calls EXCEPT ![u] = @ + 1]
            /\ UNCHANGED done_calls
       ELSE /\ done_calls' = [done_calls EXCEPT ![u] = @ + 1]
            /\ UNCHANGED error_calls
    /\ RecWorkerEnds(u)
    /\ UNCHANGED <<stop_requested, proc, accepted, rec_ret, coreVars, quotaVars, trkVars>>

RecNext ==
    \/ \E u \in Users : StartRecording(u)
    \/ \E u \in Users : StopRecording(u)
    \/ \E u \in Users : RecSpawn(u)
    \/ \E u \in Users : RecProcExit(u)
    \/ \E u \in Users : RecStopSeen(u)
    \/ \E u \in Users, short \in BOOLEAN : RecExitSeen(u, short)

RecSpec == InitWith({"utils"}, {1}, {DirectInputs}) /\ [][RecNext]_vars

\* C33: a user whose worker has ended (or never ran) has no entry in the
\* session registry, so that start_recording accepts the user again.
C33_SessionRemovedAtEnd ==
    \A u \in Users : recpc[u] = "none" => u \notin sessions

\* C35: a session whose worker has ended has had exactly one call of
\* done_callback or error_callback, and no session ever has more than one.
C35_OneCallbackPerSession ==
    \A u \in Users :
        /\ done_calls[u] + error_calls[u] <= accepted[u]
        /\ recpc[u] = "none" => done_calls[u] + error_calls[u] = accepted[u]

\* ---------------------------------------------------------------------
\* limits.py: daily quota (model unit of time: one hour)
\* ---------------------------------------------------------------------

MaxReqDur == 2       \* longest duration requested by a /record command
MaxPending == 2      \* recordings of one user admitted and not yet finished

PremiumLimit == 6    \* PREMIUM_DAILY_LIMIT_SEC = 6 * 3600
TrialLimit == 3      \* TRIAL_DAILY_LIMIT_SEC = 3 * 3600

\* get_tier for the users of the model: user 1 has premium_until in the
\* future, the others have trial credits; nobody is the owner.
TierOf(u) == IF u = 1 THEN "premium" ELSE "trial"

DailyLimit(u) == IF TierOf(u) = "premium" THEN PremiumLimit ELSE TrialLimit

\* remaining_today: max(0, daily_limit_sec - used)
RemainingToday(u) == Max(0, DailyLimit(u) - used_seconds[u])

\* can_record: refused with "daily_exceeded" when duration_sec > remaining
CanRecord(u, d) == ~(d > RemainingToday(u))

\* record_cmd: a duration <= 0 is refused, then can_record, then the task
\* is enqueued. Nothing is reserved for the admitted recording.
RecordCmd(u, d) ==
    /\ d > 0
    /\ CanRecord(u, d)
    /\ Len(recordings[u]) < MaxPending
    /\ recordings' = [recordings EXCEPT ![u] = Append(@, d)]
    /\ UNCHANGED <<used_seconds, coreVars, recVars, trkVars>>

\* s without its i-th element.
Without(s, i) == SubSeq(s, 1, i - 1) \o SubSeq(s, i + 1, Len(s))

\* add_usage: nothing for the owner, else $inc used_seconds
UsedAfter(u, n) == [used_seconds EXCEPT ![u] = @ + n]

\* One part (one unit) of the i-th recording of u has been handled:
\* "if ok: await add_usage(db, task.user_id, int(actual_dur))".
PartHandled(u, i, ok) ==
    /\ i \in 1..Len(recordings[u])
    /\ used_seconds' = IF ok THEN UsedAfter(u, 1) ELSE used_seconds
    /\ recordings' = [recordings EXCEPT ![u] =
                        IF @[i] = 1 THEN Without(@, i)
                        ELSE [@ EXCEPT ![i] = @ - 1]]
    /\ UNCHANGED <<coreVars, recVars, trkVars>>

QuotaNext ==
    \/ \E u \in Users, d \in 0..MaxReqDur : RecordCmd(u, d)
    \/ \E u \in Users, i \in 1..MaxPending, ok \in BOOLEAN : PartHandled(u, i, ok)

QuotaSpec == InitWith({"utils"}, {1}, {DirectInputs}) /\ [][QuotaNext]_vars

\* C34: the usage accounted for a user in the day never exceeds the daily
\* limit of the user's tier.
C34_DailyLimitKept ==
    \A u \in Users : used_seconds[u] <= DailyLimit(u)

\* ---------------------------------------------------------------------
\* progress.py: ProgressTracker, and the updates of the uploader
\* ---------------------------------------------------------------------

MaxBytes == 2        \* largest total / file size / sent value (in chunks)

\* Mutant: done is the flag of the call alone.
UpdateFlagOnly(tr, s, d) == [tr EXCEPT !.sent = s, !.done = d]

\* ProgressTracker.update: self.sent = sent;
\* self.done = done or (self.sent >= self.total)
Update(tr, s, d) == [tr EXCEPT !.sent = s, !.done = d \/ s >= tr.total]

\* A new ProgressTracker(total=n) replaces the tracker; no upload yet.
TrackerNew(n) ==
    /\ wpc \in {"none", "sent"}
    /\ tracker' = NewTracker(n)
    /\ updated' = FALSE
    /\ foreign' = FALSE
    /\ snap' = <<>>
    /\ seen_done' = FALSE
    /\ wpc' = "none"
    /\ wsent' = 0
    /\ wleft' = 0
    /\ UNCHANGED <<coreVars, recVars, quotaVars>>

\* tracker.update(s, d) called by any other holder of the tracker.
TrackerUpdate(s, d) ==
    /\ tracker' = Update(tracker, s, d)
    /\ updated' = TRUE
    /\ foreign' = TRUE
    /\ UNCHANGED <<snap, seen_done, wpc, wsent, wleft, coreVars, recVars, quotaVars>>

\* The snapshots kept for comparison: the latest and the one before it.
LastTwo(s) == IF Len(s) > 2 THEN Tail(s) ELSE s

\* tracker.snapshot(): a read of total, sent and done under the lock.
TrackerSnapshot ==
    /\ snap' = LastTwo(Append(snap, [total |-> tracker.total,
                                     sent |-> tracker.sent,
                                     done |-> tracker.done,
                                     updated |-> updated]))
    /\ seen_done' = (seen_done \/ tracker.done)
    /\ UNCHANGED <<tracker, updated, foreign, wpc, wsent, wleft, coreVars, recVars, quotaVars>>

\* send_video_with_progress posts a file of size chunks;
\* _ProgressPayload.write starts: sent = 0, update(0, done=False).
WriteStart(size) ==
    /\ wpc = "none"
    /\ wpc' = "chunks"
    /\ wsent' = 0
    /\ wleft' = size
    /\ tracker' = Update(tracker, 0, FALSE)
    /\ updated' = TRUE
    /\ UNCHANGED <<foreign, snap, seen_done, coreVars, recVars, quotaVars>>

\* A chunk is read and written: sent += len(chunk); update(sent, done=False)
WriteChunk ==
    /\ wpc = "chunks" /\ wleft > 0
    /\ wsent' = wsent + 1
    /\ wleft' = wleft - 1
    /\ tracker' = Update(tracker, wsent + 1, FALSE)
    /\ UNCHANGED <<updated, foreign, snap, seen_done, wpc, coreVars, recVars, quotaVars>>

\* End of file: update(sent, done=True); or the request fails while the
\* body is written and write is abandoned.
WriteEnd ==
    /\ wpc = "chunks"
    /\ \/ wleft = 0 /\ tracker' = Update(tracker, wsent, TRUE)
       \/ UNCHANGED tracker
    /\ wpc' = "finally"
    /\ UNCHANGED <<updated, foreign, snap, seen_done, wsent, wleft, coreVars, recVars, quotaVars>>

\* finally of send_video_with_progress: update(tracker.total or 0, done=True)
SendFinally ==
    /\ wpc = "finally"
    /\ tracker' = Update(tracker, tracker.total, TRUE)
    /\ wpc' = "sent"
    /\ UNCHANGED <<updated, foreign, snap, seen_done, wsent, wleft, coreVars, recVars, quotaVars>>

TrkNext ==
    \/ \E n \in 0..MaxBytes : TrackerNew(n)
    \/ \E s \in 0..MaxBytes, d \in BOOLEAN : TrackerUpdate(s, d)
    \/ TrackerSnapshot
    \/ \E size \in 0..MaxBytes : WriteStart(size)
    \/ WriteChunk
    \/ WriteEnd
    \/ SendFinally

TrkSpec == InitWith({"utils"}, {1}, {DirectInputs}) /\ [][TrkNext]_vars

\* A snapshot taken after at least one update never shows sent >= total
\* together with done = false.
SnapshotConsistent ==
    \A i \in 1..Len(snap) :
        (snap[i].updated /\ snap[i].sent >= snap[i].total) => snap[i].done

\* C40 as stated: once a snapshot has shown done, the latest snapshot
\* shows done, whatever updates were applied in between; and a snapshot
\* taken after an update never shows sent >= total with done = false.
C40_DoneSticky ==
    /\ seen_done => snap[Len(snap)].done
    /\ SnapshotConsistent

\* C40: done is taken back only by an update(sent, done=False) with
\* sent < total, which the uploader never issues once done was set: while
\* the only updates are those of _ProgressPayload.write and of the finally
\* clause of send_video_with_progress, a snapshot that follows one showing
\* done shows done; and a snapshot taken after an update never shows
\* sent >= total with done = false.
C40_DoneStickyForUploader ==
    /\ []((seen_done /\ ~foreign) => snap[Len(snap)].done)
    /\ []SnapshotConsistent
    /\ [][(tracker.done /\ ~tracker'.done /\ tracker'.total = tracker.total
           /\ updated')
             => foreign' /\ tracker'.sent < tracker.total]_vars

\* Two snapshots of a tracker updated by the uploader alone: the first
\* showed done while the file was still being written, the second was taken
\* after further updates.
C40_Witness ==
    /\ ~foreign /\ Len(snap) = 2
    /\ snap[1].done /\ snap[2].done /\ snap[1].sent < snap[2].sent

====
